---- MODULE Spec2Model ----
(***************************************************************************)
(* Model of the website-scraping pipeline:                                 *)
(*   simple_web_scraper.py / simple_web_scraper_headless.py  (write path)  *)
(*   preprocess_scraped_data.py                              (clean path)  *)
(*                                                                         *)
(* Text is modelled character by character: a Python str is a sequence of  *)
(* one-character strings, so that the text dump, the regular expressions   *)
(* of the parser and the cleaning of the normalizer are computed as the    *)
(* code computes them.                                                     *)
(***************************************************************************)
EXTENDS Integers, Sequences, FiniteSets, TLC

(***************************************************************************)
(* Characters                                                              *)
(***************************************************************************)
NL == "\n"

Lower == <<"a","b","c","d","e","f","g","h","i","j","k","l","m","n","o","p","q","r","s","t","u","v","w","x","y","z">>

Upper == <<"A","B","C","D","E","F","G","H","I","J","K","L","M","N","O","P","Q","R","S","T","U","V","W","X","Y","Z">>

Digit == <<"0","1","2","3","4","5","6","7","8","9">>

Range(f) == {f[i] : i \in DOMAIN f}

Digits == Range(Digit)

\* \s of the re module and the whitespace of str.strip()
Whitespace == {" ", "\n", "\t"}

\* \w of the re module
WordChars == Range(Lower) \cup Range(Upper) \cup Digits \cup {"_"}

\* the punctuation clean_text keeps: - . , ! ? ; : ( ) [ ] { } " '
KeptPunct == {"-", ".", ",", "!", "?", ";", ":", "(", ")", "[", "]", "{", "}", "\"", "'"}

(***************************************************************************)
(* str operations                                                          *)
(***************************************************************************)
Min(S) == CHOOSE x \in S : \A y \in S : x <= y

Max(S) == CHOOSE x \in S : \A y \in S : y <= x

\* s[i:] of Python, with 1-based i
From(s, i) == SubSeq(s, i, Len(s))

\* pat occurs in s at position i
MatchAt(s, pat, i) ==
    /\ i >= 1
    /\ i + Len(pat) - 1 <= Len(s)
    /\ \A k \in 1..Len(pat) : s[i + k - 1] = pat[k]

\* position of the first occurrence of pat in s at or after from, 0 if none
Find(s, pat, from) ==
    LET hits == {i \in from..(Len(s) - Len(pat) + 1) : MatchAt(s, pat, i)}
    IN  IF hits = {} THEN 0 ELSE Min(hits)

\* pat in s
Contains(s, pat) == Find(s, pat, 1) # 0

\* s.startswith(pat)
StartsWith(s, pat) == MatchAt(s, pat, 1)

\* position of the first character at or after i that is not whitespace (Len(s) + 1 if none)
RECURSIVE SkipSpace(_, _)
SkipSpace(s, i) == IF i > Len(s) \/ s[i] \notin Whitespace THEN i ELSE SkipSpace(s, i + 1)

\* position of the last character at or before i that is not whitespace (0 if none)
RECURSIVE SkipSpaceBack(_, _)
SkipSpaceBack(s, i) == IF i < 1 \/ s[i] \notin Whitespace THEN i ELSE SkipSpaceBack(s, i - 1)

\* s.strip()
strip(s) == SubSeq(s, SkipSpace(s, 1), SkipSpaceBack(s, Len(s)))

\* s.upper()
upper(s) ==
    [i \in 1..Len(s) |->
        IF \E k \in 1..26 : Lower[k] = s[i]
        THEN Upper[CHOOSE k \in 1..26 : Lower[k] = s[i]]
        ELSE s[i]]

\* s.split(sep): every piece between occurrences of sep, from position i on
\* (occ is the set of all positions where sep occurs in s)
RECURSIVE SplitFrom(_, _, _, _)
SplitFrom(s, sep, occ, i) ==
    LET next == {j \in occ : j >= i}
    IN  IF next = {} THEN <<From(s, i)>>
        ELSE <<SubSeq(s, i, Min(next) - 1)>> \o SplitFrom(s, sep, next, Min(next) + Len(sep))

split(s, sep) == SplitFrom(s, sep, {i \in 1..Len(s) : MatchAt(s, sep, i)}, 1)

\* s.split(sep, 1) when sep occurs in s: the parts before and after the first sep
split1(s, sep) ==
    LET j == Find(s, sep, 1)
    IN  <<SubSeq(s, 1, j - 1), From(s, j + Len(sep))>>

\* str(n) for an integer n >= 0
RECURSIVE str(_)
str(n) == IF n < 10 THEN <<Digit[n + 1]>> ELSE str(n \div 10) \o <<Digit[(n % 10) + 1]>>

\* int(s) for a string of decimal digits
RECURSIVE int(_)
int(s) ==
    IF Len(s) = 0 THEN 0
    ELSE 10 * int(SubSeq(s, 1, Len(s) - 1))
         + ((CHOOSE k \in 1..10 : Digit[k] = s[Len(s)]) - 1)

\* concatenation of a sequence of strings
RECURSIVE Concat(_)
Concat(ss) == IF ss = <<>> THEN <<>> ELSE Head(ss) \o Concat(Tail(ss))

\* xs[:n]
Take(xs, n) == SubSeq(xs, 1, IF Len(xs) < n THEN Len(xs) ELSE n)

\* end of the maximal run of characters of class C that starts at position i
\* (i - 1 when s[i] is not in C): the greedy match of C* at i
RunEnd(s, C, i) ==
    LET stops == {j \in i..Len(s) : s[j] \notin C}
    IN  IF stops = {} THEN Len(s) ELSE Min(stops) - 1

\* the empty dict
EmptyMap == [x \in {} |-> x]

\* d[k] = v on a dict d
MapPut(d, k, v) == [x \in (DOMAIN d) \cup {k} |-> IF x = k THEN v ELSE d[x]]

(***************************************************************************)
(* Labels of the text dump                                                 *)
(***************************************************************************)
L_BANNER == <<"W","E","B","S","I","T","E"," ","S","C","R","A","P","E","D"," ","D","A","T","A","\n">>

L_URL == <<"U","R","L",":"," ">>

L_TITLE == <<"T","i","t","l","e",":"," ">>

L_ABSTRACT == <<"A","B","S","T","R","A","C","T",":","\n">>

L_HEADINGS == <<"H","E","A","D","I","N","G","S",":","\n">>

L_PARAGRAPHS == <<"P","A","R","A","G","R","A","P","H","S",":","\n">>

L_LINKS == <<"L","I","N","K","S"," ","(","f","i","r","s","t"," ","2","0",")",":","\n">>

L_META == <<"M","E","T","A"," ","T","A","G","S",":","\n">>

L_FULL == <<"F","U","L","L"," ","T","E","X","T"," ","L","E","N","G","T","H",":"," ">>

L_CHARS == <<" ","c","h","a","r","a","c","t","e","r","s">>

L_TH == <<"T","O","T","A","L"," ","H","E","A","D","I","N","G","S",":"," ">>

L_TP == <<"T","O","T","A","L"," ","P","A","R","A","G","R","A","P","H","S",":"," ">>

L_TL == <<"T","O","T","A","L"," ","L","I","N","K","S",":"," ">>

L_TI == <<"T","O","T","A","L"," ","I","M","A","G","E","S",":"," ">>

\* the lookahead alternatives of the parser's block patterns
T_BLANK == <<"\n","\n">>

T_HEADINGS == <<"H","E","A","D","I","N","G","S",":">>

T_PARAGRAPHS == <<"P","A","R","A","G","R","A","P","H","S",":">>

T_LINKS == <<"L","I","N","K","S",":">>

T_META == <<"M","E","T","A"," ","T","A","G","S",":">>

T_FULL == <<"F","U","L","L"," ","T","E","X","T">>

T_TOTAL == <<"T","O","T","A","L">>

ARROW == <<"-",">">>

COLON == <<":">>

(***************************************************************************)
(* Serializer: the text dump scrape_website writes                         *)
(***************************************************************************)
\* the value None (get_abstract found nothing); not a string of characters
None == <<"None">>

\* truth value of an optional string
Truthy(x) == x # None /\ x # <<>>

\* the truncation cap of the text dump: [:20]
Cap == 20

\* "=" * 50
BannerWidth == 50

HeadingLine(h) == upper(h.level) \o <<":", " ">> \o h.text \o <<NL>>

ParagraphEntry(i, para) == str(i) \o <<".", " ">> \o para \o <<NL, NL>>

LinkLine(i, link) == str(i) \o <<".", " ">> \o link.text \o <<" ", "-", ">", " ">> \o link.href \o <<NL>>

MetaLine(m) == m.name \o <<":", " ">> \o m.content \o <<NL>>

StatisticsBlock(data) ==
       L_FULL \o str(Len(data.full_text)) \o L_CHARS \o <<NL>>
    \o L_TH \o str(Len(data.headings)) \o <<NL>>
    \o L_TP \o str(Len(data.paragraphs)) \o <<NL>>
    \o L_TL \o str(Len(data.links)) \o <<NL>>
    \o L_TI \o str(Len(data.images)) \o <<NL>>

AbstractBlock(data) ==
    IF Truthy(data.abstract) THEN L_ABSTRACT \o data.abstract \o <<NL, NL>> ELSE <<>>

HeadingsBlock(data) ==
    IF data.headings # <<>>
    THEN L_HEADINGS
         \o Concat([i \in 1..Len(data.headings) |-> HeadingLine(data.headings[i])])
         \o <<NL>>
    ELSE <<>>

\* the paragraphs written without the [:20]
ParagraphsBlock_uncapped(data) ==
    IF data.paragraphs # <<>>
    THEN L_PARAGRAPHS
         \o Concat([i \in 1..Len(data.paragraphs) |-> ParagraphEntry(i, data.paragraphs[i])])
    ELSE <<>>

\* enumerate(data['paragraphs'][:20], 1)
ParagraphsBlock(data) ==
    IF data.paragraphs # <<>>
    THEN L_PARAGRAPHS
         \o Concat([i \in 1..Len(Take(data.paragraphs, Cap)) |->
                       ParagraphEntry(i, data.paragraphs[i])])
    ELSE <<>>

\* enumerate(data['links'][:20], 1)
LinksBlock(data) ==
    IF data.links # <<>>
    THEN L_LINKS
         \o Concat([i \in 1..Len(Take(data.links, Cap)) |-> LinkLine(i, data.links[i])])
         \o <<NL>>
    ELSE <<>>

MetaBlock(data) ==
    IF data.meta_tags # <<>>
    THEN L_META
         \o Concat([i \in 1..Len(data.meta_tags) |-> MetaLine(data.meta_tags[i])])
         \o <<NL>>
    ELSE <<>>

TextDump(data) ==
       L_BANNER
    \o [i \in 1..BannerWidth |-> "="] \o <<NL, NL>>
    \o L_URL \o data.url \o <<NL>>
    \o L_TITLE \o data.title \o <<NL, NL>>
    \o AbstractBlock(data)
    \o HeadingsBlock(data)
    \o ParagraphsBlock(data)
    \o LinksBlock(data)
    \o MetaBlock(data)
    \o StatisticsBlock(data)

(***************************************************************************)
(* Parser: parse_scraped_content                                           *)
(***************************************************************************)
\* re.search(label + r'(.+)', content): group 1 stripped, "" when no match.
\* '.' matches any character but a newline, and the label may match anywhere.
SearchLine(content, label) ==
    LET n    == Len(label)
        hits == {i \in 1..(Len(content) - n) :
                    MatchAt(content, label, i) /\ content[i + n] # NL}
    IN  IF hits = {} THEN <<>>
        ELSE LET i == Min(hits)
             IN  strip(SubSeq(content, i + n, RunEnd(content, {c \in Range(content) : c # NL}, i + n)))

\* re.search(label + r'(.*?)(?=\n\n|T1|..|$)', content, re.DOTALL):
\* [found |-> whether the label occurs, text |-> group 1]. The lazy group ends at
\* the first position where two newlines, a terminator or the end of the input
\* ($: the very end, or just before a final newline) follows.
SearchBlock(content, label, terms) ==
    LET i == Find(content, label, 1)
        b == i + Len(label)
        n == Len(content)
        ends == {j \in b..(n + 1) :
                    \/ j = n + 1
                    \/ j = n /\ content[n] = NL
                    \/ MatchAt(content, T_BLANK, j)
                    \/ \E t \in terms : MatchAt(content, t, j)}
    IN  IF i = 0 THEN [found |-> FALSE, text |-> <<>>]
        ELSE [found |-> TRUE, text |-> SubSeq(content, b, Min(ends) - 1)]

\* re.sub(r'^\d+\.\s*', '', x)
StripNumbering(x) ==
    LET d == RunEnd(x, Digits, 1)
    IN  IF d >= 1 /\ d + 1 <= Len(x) /\ x[d + 1] = "."
        THEN From(x, RunEnd(x, Whitespace, d + 2) + 1)
        ELSE x

ParseHeadings(content) ==
    LET m     == SearchBlock(content, L_HEADINGS, {T_PARAGRAPHS})
        lines == SelectSeq(split(strip(m.text), <<NL>>), LAMBDA line : Contains(line, COLON))
    IN  IF ~m.found THEN <<>>
        ELSE [k \in 1..Len(lines) |->
                 [level |-> strip(split1(lines[k], COLON)[1]),
                  text  |-> strip(split1(lines[k], COLON)[2])]]

ParseParagraphs(content) ==
    LET m     == SearchBlock(content, L_PARAGRAPHS, {T_LINKS, T_META})
        lines == SelectSeq(split(strip(m.text), <<NL>>),
                           LAMBDA line : /\ strip(line) # <<>>
                                         /\ ~StartsWith(line, T_FULL)
                                         /\ ~StartsWith(line, T_TOTAL))
        paras == [k \in 1..Len(lines) |-> StripNumbering(strip(lines[k]))]
    IN  IF ~m.found THEN <<>>
        ELSE SelectSeq(paras, LAMBDA p : p # <<>>)

ParseLinks(content) ==
    LET m     == SearchBlock(content, L_LINKS, {T_META})
        lines == SelectSeq(split(strip(m.text), <<NL>>),
                           LAMBDA line : /\ Contains(line, ARROW)
                                         /\ Len(split(line, ARROW)) = 2)
    IN  IF ~m.found THEN <<>>
        ELSE [k \in 1..Len(lines) |->
                 [text |-> StripNumbering(strip(split(lines[k], ARROW)[1])),
                  href |-> strip(split(lines[k], ARROW)[2])]]

\* the lines of the META TAGS block that hold a colon
MetaLines(content) ==
    LET m == SearchBlock(content, L_META, {T_FULL})
    IN  IF ~m.found THEN <<>>
        ELSE SelectSeq(split(strip(m.text), <<NL>>), LAMBDA line : Contains(line, COLON))

RECURSIVE MetaDict(_)
MetaDict(lines) ==
    IF lines = <<>> THEN EmptyMap
    ELSE LET last == lines[Len(lines)]
         IN  MapPut(MetaDict(SubSeq(lines, 1, Len(lines) - 1)),
                    strip(split1(last, COLON)[1]), strip(split1(last, COLON)[2]))

ParseMetaTags(content) == MetaDict(MetaLines(content))

\* The loop over the META TAGS lines assigns `name, content = line.split(':', 1)`:
\* it rebinds the parameter `content`, so after a block with at least one such
\* line the statistics pattern is searched in the last line's value.
ContentAfterMeta(content) ==
    LET lines == MetaLines(content)
    IN  IF lines = <<>> THEN content ELSE split1(lines[Len(lines)], COLON)[2]

\* the literals that follow the five numbers of the statistics pattern
StatSeps == << L_CHARS \o <<NL>> \o L_TH, <<NL>> \o L_TP, <<NL>> \o L_TL, <<NL>> \o L_TI, <<>> >>

\* match of (\d+) sep (\d+) sep ... from position i: the digit strings, or <<>>
RECURSIVE MatchNumbers(_, _, _)
MatchNumbers(s, i, seps) ==
    IF seps = <<>> THEN <<>>
    ELSE LET e == RunEnd(s, Digits, i)
         IN  IF e < i \/ ~MatchAt(s, Head(seps), e + 1) THEN <<>>
             ELSE LET rest == MatchNumbers(s, e + 1 + Len(Head(seps)), Tail(seps))
                  IN  IF Len(seps) > 1 /\ rest = <<>> THEN <<>>
                      ELSE <<SubSeq(s, i, e)>> \o rest

StatKeys == <<"full_text_length", "total_headings", "total_paragraphs", "total_links", "total_images">>

\* the five numbers searched one line at a time, each key filled when its own line matches
SearchStatistics_perline(s) ==
    LET labels == <<L_FULL, L_TH, L_TP, L_TL, L_TI>>
        hits(j) == {i \in 1..Len(s) :
                       /\ MatchAt(s, labels[j], i)
                       /\ RunEnd(s, Digits, i + Len(labels[j])) >= i + Len(labels[j])}
        found == {j \in 1..5 : hits(j) # {}}
    IN  [k \in {StatKeys[j] : j \in found} |->
            LET j == CHOOSE j \in found : StatKeys[j] = k
                i == Min(hits(j)) + Len(labels[j])
            IN  int(SubSeq(s, i, RunEnd(s, Digits, i)))]

\* re.search(r'FULL TEXT LENGTH: (\d+) characters\nTOTAL HEADINGS: (\d+)\n...', s)
SearchStatistics(s) ==
    LET hits == {i \in 1..Len(s) :
                    /\ MatchAt(s, L_FULL, i)
                    /\ MatchNumbers(s, i + Len(L_FULL), StatSeps) # <<>>}
    IN  IF hits = {} THEN EmptyMap
        ELSE LET g == MatchNumbers(s, Min(hits) + Len(L_FULL), StatSeps)
             IN  [k \in Range(StatKeys) |->
                     int(g[CHOOSE j \in 1..5 : StatKeys[j] = k])]

ParseStatistics(content) == SearchStatistics(ContentAfterMeta(content))

parse_scraped_content(content) ==
    [url        |-> SearchLine(content, L_URL),
     title      |-> SearchLine(content, L_TITLE),
     abstract   |-> strip(SearchBlock(content, L_ABSTRACT, {T_HEADINGS}).text),
     headings   |-> ParseHeadings(content),
     paragraphs |-> ParseParagraphs(content),
     links      |-> ParseLinks(content),
     meta_tags  |-> ParseMetaTags(content),
     statistics |-> ParseStatistics(content)]

(***************************************************************************)
(* Normalizer: clean_text and preprocess_content                           *)
(***************************************************************************)
\* re.sub(r'\s+', ' ', text): every run of whitespace becomes one space
CollapseWhitespace(text) ==
    LET marked == [i \in 1..Len(text) |->
                      IF text[i] \notin Whitespace THEN text[i]
                      ELSE IF i > 1 /\ text[i - 1] \in Whitespace THEN "" ELSE " "]
    IN  SelectSeq(marked, LAMBDA c : c # "")

\* re.sub(r'[^\w\s]', '', text): the punctuation removed as well
RemoveSpecial_nopunct(text) ==
    SelectSeq(text, LAMBDA c : c \in WordChars \cup Whitespace)

\* re.sub(r'[^\w\s\-.,!?;:()\[\]{}"\']', '', text)
RemoveSpecial(text) ==
    SelectSeq(text, LAMBDA c : c \in WordChars \cup Whitespace \cup KeptPunct)

\* clean_text without the second re.sub(r'\s+', ' ', text)
clean_text_once(text) ==
    IF ~Truthy(text) THEN <<>>
    ELSE strip(RemoveSpecial(CollapseWhitespace(text)))

clean_text(text) ==
    IF ~Truthy(text) THEN <<>>
    ELSE strip(CollapseWhitespace(RemoveSpecial(CollapseWhitespace(text))))

\* a paragraph is kept only when its cleaned text is longer than this
MinParagraphLen == 10

CleanHeadings(headings) ==
    LET cleaned == [i \in 1..Len(headings) |->
                       [level |-> headings[i].level, text |-> clean_text(headings[i].text)]]
    IN  SelectSeq(cleaned, LAMBDA h : h.text # <<>>)

\* the loop over the paragraphs with `len(cleaned_para) >= 10`
CleanParagraphsFrom_atleast(paras, kept) ==
    LET c   == [i \in 1..Len(paras) |-> clean_text(paras[i])]
        idx == SelectSeq([i \in 1..Len(paras) |-> i],
                         LAMBDA i : /\ c[i] # <<>>
                                    /\ Len(c[i]) >= MinParagraphLen
                                    /\ c[i] \notin Range(kept)
                                    /\ \A j \in 1..(i - 1) : c[j] # c[i])
    IN  kept \o [k \in 1..Len(idx) |-> c[idx[k]]]

\* the loop over the paragraphs without seen_paragraphs
CleanParagraphsFrom_nodedup(paras, kept) ==
    kept \o SelectSeq([i \in 1..Len(paras) |-> clean_text(paras[i])],
                      LAMBDA c : c # <<>> /\ Len(c) > MinParagraphLen)

\* the loop over the paragraphs; kept is processed_data['paragraphs'] so far and
\* its elements are seen_paragraphs
RECURSIVE CleanParagraphsFrom(_, _)
CleanParagraphsFrom(paras, kept) ==
    IF paras = <<>> THEN kept
    ELSE LET cleaned_para == clean_text(Head(paras))
         IN  CleanParagraphsFrom(Tail(paras),
                 IF /\ cleaned_para # <<>>
                    /\ Len(cleaned_para) > MinParagraphLen
                    /\ cleaned_para \notin Range(kept)
                 THEN Append(kept, cleaned_para)
                 ELSE kept)

CleanParagraphs(paras) == CleanParagraphsFrom(paras, <<>>)

\* the loop over the links with the href cleaned as the text is
CleanLinks_href(links) ==
    LET cleaned == [i \in 1..Len(links) |->
                       [text |-> clean_text(links[i].text), href |-> clean_text(links[i].href)]]
    IN  SelectSeq(cleaned, LAMBDA l : l.text # <<>>)

CleanLinks(links) ==
    LET cleaned == [i \in 1..Len(links) |->
                       [text |-> clean_text(links[i].text), href |-> links[i].href]]
    IN  SelectSeq(cleaned, LAMBDA l : l.text # <<>>)

\* sep.join(ss)
RECURSIVE Join(_, _)
Join(ss, sep) ==
    IF ss = <<>> THEN <<>>
    ELSE IF Len(ss) = 1 THEN ss[1]
    ELSE ss[1] \o sep \o Join(Tail(ss), sep)

\* len(s.split()): the number of maximal runs of non-whitespace characters
WordCount(s) ==
    Cardinality({i \in 1..Len(s) :
                    s[i] \notin Whitespace /\ (i = 1 \/ s[i - 1] \in Whitespace)})

RECURSIVE SumLen(_)
SumLen(ss) == IF ss = <<>> THEN 0 ELSE Len(Head(ss)) + SumLen(Tail(ss))

\* processed_stats with the paragraphs joined by '' instead of ' '
ProcessedStats_nojoin(headings, paragraphs, links, clock) ==
    [clean_headings_count     |-> Len(headings),
     clean_paragraphs_count   |-> Len(paragraphs),
     clean_links_count        |-> Len(links),
     average_paragraph_length |-> [num |-> SumLen(paragraphs),
                                   den |-> IF Len(paragraphs) > 1 THEN Len(paragraphs) ELSE 1],
     total_words              |-> WordCount(Join(paragraphs, <<>>)),
     processing_timestamp     |-> clock]

\* processed_stats; the float sum / max(n, 1) is kept as the pair of its
\* numerator and denominator, and str(datetime.now()) as the clock reading
ProcessedStats(headings, paragraphs, links, clock) ==
    [clean_headings_count     |-> Len(headings),
     clean_paragraphs_count   |-> Len(paragraphs),
     clean_links_count        |-> Len(links),
     average_paragraph_length |-> [num |-> SumLen(paragraphs),
                                   den |-> IF Len(paragraphs) > 1 THEN Len(paragraphs) ELSE 1],
     total_words              |-> WordCount(Join(paragraphs, <<" ">>)),
     processing_timestamp     |-> clock]

preprocess_content(parsed_data, clock) ==
    LET headings   == CleanHeadings(parsed_data.headings)
        paragraphs == CleanParagraphs(parsed_data.paragraphs)
        links      == CleanLinks(parsed_data.links)
    IN  [url             |-> parsed_data.url,
         title           |-> clean_text(parsed_data.title),
         abstract        |-> clean_text(parsed_data.abstract),
         headings        |-> headings,
         paragraphs      |-> paragraphs,
         links           |-> links,
         meta_tags       |-> parsed_data.meta_tags,
         statistics      |-> parsed_data.statistics,
         processed_stats |-> ProcessedStats(headings, paragraphs, links, clock)]

(***************************************************************************)
(* File names                                                              *)
(***************************************************************************)
\* s.replace(old, new), from position i on
RECURSIVE ReplaceFrom(_, _, _, _)
ReplaceFrom(s, old, new, i) ==
    LET j == Find(s, old, i)
    IN  IF j = 0 THEN From(s, i)
        ELSE SubSeq(s, i, j - 1) \o new \o ReplaceFrom(s, old, new, j + Len(old))

replace(s, old, new) == ReplaceFrom(s, old, new, 1)

\* urlparse(url).netloc of an absolute URL scheme://host/path
netloc(url) ==
    LET j == Find(url, <<"/", "/">>, 1)
    IN  IF j = 0 THEN <<>>
        ELSE SubSeq(url, j + 2, RunEnd(url, {c \in Range(url) : c \notin {"/", "?", "#"}}, j + 2))

\* the stem of the two files scrape_website writes: data/<domain>_scraped_data.*
Domain(url) == replace(replace(netloc(url), <<"w", "w", "w", ".">>, <<>>), <<".">>, <<"_">>)

(***************************************************************************)
(* Bounds and inputs                                                       *)
(***************************************************************************)
\* most paragraphs and links of an extracted page (beyond the cap of 20)
MaxParas == 25

MaxLinks == 30

\* most URLs of a scrape batch, most files of a clean batch
MaxUrls == 2

MaxFiles == 2

\* most paragraphs of a Record handed directly to the normalizer
MaxNormParas == 3

\* last reading of the clock
MaxClock == 2

U_AB == <<"h","t","t","p",":","/","/","a",".","b">>

U_WWW == <<"h","t","t","p","s",":","/","/","w","w","w",".","a",".","b","/","x">>

U_CD == <<"h","t","t","p",":","/","/","c",".","d">>

URLs == {U_AB, U_WWW, U_CD}

\* get_paragraphs, get_links, get_headings, get_meta_tags, get_images, get_full_text
\* of a page with n paragraphs, m links, h headings and k meta tags
PageParagraphs(n) == [i \in 1..n |-> <<"p">> \o str(i)]

PageLinks(m) == [i \in 1..m |-> [text |-> <<"l">> \o str(i), href |-> <<"/">> \o str(i)]]

\* the text of the second heading holds the words of the two line labels
LABELS_IN_TEXT == <<"U","R","L",":"," ","u"," ","T","i","t","l","e",":"," ","t">>

PageHeadings(h) ==
    [i \in 1..h |-> [level |-> <<"h", Digit[i + 1]>>,
                     text  |-> IF i = 2 THEN LABELS_IN_TEXT ELSE <<"H", "d">> \o str(i)]]

\* the third tag has no name attribute and is keyed by its property attribute, og:t
PageMeta(k) ==
    [i \in 1..k |-> [name    |-> IF i = 3 THEN <<"o", "g", ":", "t">> ELSE <<"m">> \o str(i),
                     content |-> <<"c", " ">> \o str(i)]]

Page(url, abstract, h, n, m, k) ==
    [url        |-> url,
     title      |-> <<"A", "b">>,
     headings   |-> PageHeadings(h),
     paragraphs |-> PageParagraphs(n),
     links      |-> PageLinks(m),
     images     |-> [i \in 1..(k + 1) |-> [src |-> <<"s">>, alt |-> <<>>, title |-> <<>>]],
     meta_tags  |-> PageMeta(k),
     abstract   |-> abstract,
     full_text  |-> [i \in 1..(100 + n) |-> "x"]]

\* the pages a URL may serve in the one-document specification
Pages(url) ==
    {Page(url, IF h = 0 THEN None ELSE <<"S", "u", "m">>, h, n, m, k) :
        h \in {0, 2}, n \in {0, 2, Cap, MaxParas}, m \in {0, 1, MaxLinks}, k \in {0, 2, 3}}

\* the page each URL serves in the batch specification
BatchPage(url) ==
    IF url = U_CD THEN Page(url, None, 1, 1, 0, 1) ELSE Page(url, <<"S", "u", "m">>, 0, 2, 1, 0)

\* sequences over S of length lo..hi
SeqsOf(S, lo, hi) == UNION {[1..n -> S] : n \in lo..hi}

\* the orders in which glob may list the files S
Listings(S) == {l \in [1..Cardinality(S) -> S] : Range(l) = S}

(***************************************************************************)
(* State                                                                   *)
(***************************************************************************)
VARIABLES
    variant,          \* which scraper runs: "plain" (simple_web_scraper.py) or "headless"
    urls,             \* the argument of scrape_multiple_websites
    pages,            \* what the extractor gets from each URL
    spc,              \* scraper: "loop", "done" (returned results), "raised" (exception left the batch)
    idx,              \* scraper: number of URLs the loop has finished
    results,          \* scraper: the list results
    successful,       \* scraper: counter
    failed,           \* scraper: counter
    calls,            \* the calls of scrape_website so far: [url, returned], returned being
                      \* "data", "None" or "raised"
    data_json,        \* folder data: stem -> the Record dumped as JSON
    data_txt,         \* folder data: stem -> the text dump
    edited,           \* the dumps edited by hand after they were written: stem -> edit
    attempts,         \* the writes of output files that were tried, each with its outcome
    cpc,              \* preprocessor: "idle", "loop" (before a file), "parsed" (the file is
                      \* parsed), "done"; normalizer alone: "norm", "norm1", "norm2"
    txt_files,        \* preprocessor: the listing of the input folder
    fidx,             \* preprocessor: number of files the loop has finished
    processed_count,  \* preprocessor: counter
    failed_count,     \* preprocessor: counter
    parsed_data,      \* preprocessor: the last parsed Record
    processed_data,   \* preprocessor: the last cleaned Record
    reprocessed,      \* the normalizer applied to processed_data
    out_json,         \* folder processed_data: stem -> Record saved as JSON
    out_txt,          \* folder processed_data: stem -> Record rendered as text
    now               \* the clock

scraper == <<variant, urls, pages, spc, idx, results, successful, failed, calls>>

folder == <<data_json, data_txt, edited, attempts>>

cleaner == <<cpc, txt_files, fidx, processed_count, failed_count, parsed_data,
             processed_data, reprocessed, out_json, out_txt, now>>

vars == <<variant, urls, pages, spc, idx, results, successful, failed, calls,
          data_json, data_txt, edited, attempts,
          cpc, txt_files, fidx, processed_count, failed_count, parsed_data,
          processed_data, reprocessed, out_json, out_txt, now>>

Variants == {"plain", "headless"}

\* one `with open(..., 'w')` block: who wrote, the stem and the kind of the file, and
\* whether the write went through
Attempt(by, stem, kind, ok) == [by |-> by, stem |-> stem, kind |-> kind, ok |-> ok]

\* where scrape_website can fail: driver.get / extraction, the JSON write, the text write
Stages == {"fetch", "json", "txt"}

CleanerIdle ==
    /\ cpc = "idle"
    /\ txt_files = <<>>
    /\ fidx = 0
    /\ processed_count = 0
    /\ failed_count = 0
    /\ parsed_data = EmptyMap
    /\ processed_data = EmptyMap
    /\ reprocessed = EmptyMap
    /\ out_json = EmptyMap
    /\ out_txt = EmptyMap
    /\ now = 0

ScraperStart ==
    /\ spc = "loop"
    /\ idx = 0
    /\ results = <<>>
    /\ successful = 0
    /\ failed = 0
    /\ calls = <<>>
    /\ data_json = EmptyMap
    /\ data_txt = EmptyMap
    /\ edited = EmptyMap
    /\ attempts = {}

\* one document: a scraper is started on one URL, the preprocessor runs afterwards
Init ==
    /\ variant \in Variants
    /\ urls = <<U_AB>>
    /\ pages \in [{U_AB} -> Pages(U_AB)]
    /\ ScraperStart
    /\ CleanerIdle

(***************************************************************************)
(* Write path: scrape_multiple_websites calling scrape_website             *)
(***************************************************************************)
\* scrape_website(url) runs to its end: both files are written, data is returned,
\* and the loop appends it to results
ScrapeOk ==
    /\ spc = "loop"
    /\ idx < Len(urls)
    /\ LET url  == urls[idx + 1]
           data == pages[url]
           stem == Domain(url)
       IN  /\ data_json' = MapPut(data_json, stem, data)
           /\ data_txt' = MapPut(data_txt, stem, TextDump(data))
           /\ edited' = [s \in (DOMAIN edited) \ {stem} |-> edited[s]]
           /\ attempts' = attempts \cup {Attempt("scrape_website", stem, "json", TRUE),
                                          Attempt("scrape_website", stem, "txt", TRUE)}
           /\ results' = Append(results, data)
           /\ calls' = Append(calls, [url |-> url, returned |-> "data"])
    /\ successful' = successful + 1
    /\ idx' = idx + 1
    /\ spc' = IF idx + 1 = Len(urls) THEN "done" ELSE "loop"
    /\ UNCHANGED <<variant, urls, pages, failed>>
    /\ UNCHANGED cleaner

\* scrape_website(url) fails at a stage. The headless scraper catches the exception
\* and returns None, which the loop counts as failed; the plain scraper has no
\* handler, so the exception leaves scrape_website and scrape_multiple_websites.
ScrapeFail(stage) ==
    /\ spc = "loop"
    /\ idx < Len(urls)
    /\ LET url  == urls[idx + 1]
           stem == Domain(url)
       IN  /\ data_json' = IF stage = "txt" THEN MapPut(data_json, stem, pages[url]) ELSE data_json
           /\ attempts' = attempts \cup
                  (CASE stage = "fetch" -> {}
                     [] stage = "json"  -> {Attempt("scrape_website", stem, "json", FALSE)}
                     [] stage = "txt"   -> {Attempt("scrape_website", stem, "json", TRUE),
                                            Attempt("scrape_website", stem, "txt", FALSE)})
           /\ calls' = Append(calls, [url |-> url,
                                      returned |-> IF variant = "headless" THEN "None" ELSE "raised"])
    /\ IF variant = "headless"
       THEN /\ failed' = failed + 1
            /\ idx' = idx + 1
            /\ spc' = IF idx + 1 = Len(urls) THEN "done" ELSE "loop"
       ELSE /\ spc' = "raised"
            /\ UNCHANGED <<failed, idx>>
    /\ UNCHANGED <<variant, urls, pages, results, successful, data_txt, edited>>
    /\ UNCHANGED cleaner

ScraperEnded == spc \in {"done", "raised"}

(***************************************************************************)
(* A dump edited by hand between the two programs                          *)
(***************************************************************************)
BlockLabels == {L_ABSTRACT, L_HEADINGS, L_PARAGRAPHS, L_LINKS, L_META, L_FULL}

\* txt without the line that starts with label
RemoveLine(txt, label) ==
    LET i == Find(txt, label, 1)
        e == Find(txt, <<NL>>, i)
    IN  IF i = 0 THEN txt ELSE SubSeq(txt, 1, i - 1) \o From(txt, e + 1)

\* txt without the block that starts with label, up to the next block's label
RemoveBlock(txt, label) ==
    LET i     == Find(txt, label, 1)
        nexts == {Find(txt, l, i + 1) : l \in BlockLabels} \ {0}
    IN  IF i = 0 THEN txt
        ELSE SubSeq(txt, 1, i - 1) \o (IF nexts = {} THEN <<>> ELSE From(txt, Min(nexts)))

\* the TOTAL HEADINGS and TOTAL PARAGRAPHS lines in each other's place
SwapLines(txt) ==
    LET i == Find(txt, L_TH, 1)
        j == Find(txt, L_TP, 1)
        k == Find(txt, L_TL, 1)
    IN  IF 0 < i /\ i < j /\ j < k
        THEN SubSeq(txt, 1, i - 1) \o SubSeq(txt, j, k - 1) \o SubSeq(txt, i, j - 1) \o From(txt, k)
        ELSE txt

\* a letter in front of the number of the TOTAL LINKS line
Malform(txt) ==
    LET i == Find(txt, L_TL, 1)
    IN  IF i = 0 THEN txt
        ELSE SubSeq(txt, 1, i + Len(L_TL) - 1) \o <<"x">> \o From(txt, i + Len(L_TL))

\* an arrow at the end of the text of the first link: "1. l1 -> /1" becomes
\* "1. l1 -> -> /1", the line of a link whose text is "l1 ->"
ArrowInText(txt) ==
    LET i == Find(txt, <<" ">> \o ARROW \o <<" ">>, 1)
    IN  IF i = 0 THEN txt
        ELSE SubSeq(txt, 1, i - 1) \o <<" ">> \o ARROW \o From(txt, i)

\* the edits, by name: a line removed, a block removed, two statistics lines
\* swapped, a statistics number made malformed, an arrow put in a link text
LineEdits == {"URL", "Title", "FULL TEXT LENGTH", "TOTAL HEADINGS", "TOTAL PARAGRAPHS",
              "TOTAL LINKS", "TOTAL IMAGES"}

BlockEdits == {"ABSTRACT", "HEADINGS", "PARAGRAPHS", "LINKS", "META TAGS"}

Edits == LineEdits \cup BlockEdits \cup {"swap", "malform", "arrow"}

LabelOf(edit) ==
    CASE edit = "URL" -> L_URL
      [] edit = "Title" -> L_TITLE
      [] edit = "FULL TEXT LENGTH" -> L_FULL
      [] edit = "TOTAL HEADINGS" -> L_TH
      [] edit = "TOTAL PARAGRAPHS" -> L_TP
      [] edit = "TOTAL LINKS" -> L_TL
      [] edit = "TOTAL IMAGES" -> L_TI
      [] edit = "ABSTRACT" -> L_ABSTRACT
      [] edit = "HEADINGS" -> L_HEADINGS
      [] edit = "PARAGRAPHS" -> L_PARAGRAPHS
      [] edit = "LINKS" -> L_LINKS
      [] edit = "META TAGS" -> L_META

HandEdit(txt, edit) ==
    IF edit \in LineEdits THEN RemoveLine(txt, LabelOf(edit))
    ELSE IF edit \in BlockEdits THEN RemoveBlock(txt, LabelOf(edit))
    ELSE IF edit = "swap" THEN SwapLines(txt)
    ELSE IF edit = "arrow" THEN ArrowInText(txt)
    ELSE Malform(txt)

EditDump ==
    /\ ScraperEnded
    /\ cpc = "idle"
    /\ \E stem \in (DOMAIN data_txt) \ (DOMAIN edited), edit \in Edits :
         /\ HandEdit(data_txt[stem], edit) # data_txt[stem]
         /\ data_txt' = MapPut(data_txt, stem, HandEdit(data_txt[stem], edit))
         /\ edited' = MapPut(edited, stem, edit)
    /\ UNCHANGED <<data_json, attempts>>
    /\ UNCHANGED scraper
    /\ UNCHANGED cleaner

(***************************************************************************)
(* Clean path: process_all_files                                           *)
(***************************************************************************)
\* get_txt_files and the early return on an empty folder
ProcessStart ==
    /\ ScraperEnded
    /\ cpc = "idle"
    /\ \E l \in Listings(DOMAIN data_txt) :
         /\ txt_files' = l
         /\ cpc' = IF l = <<>> THEN "done" ELSE "loop"
    /\ UNCHANGED <<fidx, processed_count, failed_count, parsed_data, processed_data,
                   reprocessed, out_json, out_txt, now>>
    /\ UNCHANGED scraper
    /\ UNCHANGED folder

\* read_txt_file: the content, or "" when the read raises
read_txt_file(file_path, readable) == IF readable THEN data_txt[file_path] ELSE <<>>

LoopStep ==
    /\ fidx' = fidx + 1
    /\ cpc' = IF fidx + 1 = Len(txt_files) THEN "done" ELSE "loop"

\* the file cannot be read, or is empty, and the loop is left
ProcessFileSkip_abort(readable) ==
    /\ cpc = "loop"
    /\ read_txt_file(txt_files[fidx + 1], readable) = <<>>
    /\ failed_count' = failed_count + 1
    /\ cpc' = "done"
    /\ UNCHANGED <<txt_files, fidx, processed_count, parsed_data, processed_data, reprocessed,
                   out_json, out_txt, now>>
    /\ UNCHANGED scraper
    /\ UNCHANGED folder

\* the file cannot be read, or is empty: `if not content: failed_count += 1; continue`
ProcessFileSkip(readable) ==
    /\ cpc = "loop"
    /\ read_txt_file(txt_files[fidx + 1], readable) = <<>>
    /\ failed_count' = failed_count + 1
    /\ LoopStep
    /\ UNCHANGED <<txt_files, processed_count, parsed_data, processed_data, reprocessed,
                   out_json, out_txt, now>>
    /\ UNCHANGED scraper
    /\ UNCHANGED folder

\* content = read_txt_file(txt_file); parsed_data = parse_scraped_content(content)
ParseFile ==
    /\ cpc = "loop"
    /\ read_txt_file(txt_files[fidx + 1], TRUE) # <<>>
    /\ parsed_data' = parse_scraped_content(read_txt_file(txt_files[fidx + 1], TRUE))
    /\ cpc' = "parsed"
    /\ UNCHANGED <<txt_files, fidx, processed_count, failed_count, processed_data, reprocessed,
                   out_json, out_txt, now>>
    /\ UNCHANGED scraper
    /\ UNCHANGED folder

\* an exception raised in the rest of the try body: `except Exception: failed_count += 1`
ProcessFileRaise ==
    /\ cpc = "parsed"
    /\ failed_count' = failed_count + 1
    /\ LoopStep
    /\ UNCHANGED <<txt_files, processed_count, parsed_data, processed_data, reprocessed,
                   out_json, out_txt, now>>
    /\ UNCHANGED scraper
    /\ UNCHANGED folder

\* save_processed_data: each of the two writes is tried and its failure is only logged
save_json(base_name, data, ok) == IF ok THEN MapPut(out_json, base_name, data) ELSE out_json

save_txt(base_name, data, ok) == IF ok THEN MapPut(out_txt, base_name, data) ELSE out_txt

\* processed_data = preprocess_content(parsed_data); save_processed_data(...);
\* processed_count += 1
ProcessFileOk ==
    /\ cpc = "parsed"
    /\ \E t \in now..MaxClock :
         /\ now' = t
         /\ processed_data' = preprocess_content(parsed_data, t)
    /\ \E json_ok \in BOOLEAN, txt_ok \in BOOLEAN :
         /\ out_json' = save_json(txt_files[fidx + 1], processed_data', json_ok)
         /\ out_txt' = save_txt(txt_files[fidx + 1], processed_data', txt_ok)
         /\ attempts' = attempts \cup
                {Attempt("save_processed_data", txt_files[fidx + 1], "json", json_ok),
                 Attempt("save_processed_data", txt_files[fidx + 1], "txt", txt_ok)}
    /\ processed_count' = processed_count + 1
    /\ LoopStep
    /\ UNCHANGED <<txt_files, failed_count, parsed_data, reprocessed>>
    /\ UNCHANGED scraper
    /\ UNCHANGED <<data_json, data_txt, edited>>

(***************************************************************************)
(* The normalizer alone, on a Record and on its own output                 *)
(***************************************************************************)
Normalize ==
    /\ cpc = "norm"
    /\ \E t \in now..MaxClock :
         /\ now' = t
         /\ processed_data' = preprocess_content(parsed_data, t)
    /\ cpc' = "norm1"
    /\ UNCHANGED <<txt_files, fidx, processed_count, failed_count, parsed_data, reprocessed,
                   out_json, out_txt>>
    /\ UNCHANGED scraper
    /\ UNCHANGED folder

Renormalize ==
    /\ cpc = "norm1"
    /\ \E t \in now..MaxClock :
         /\ now' = t
         /\ reprocessed' = preprocess_content(processed_data, t)
    /\ cpc' = "norm2"
    /\ UNCHANGED <<txt_files, fidx, processed_count, failed_count, parsed_data, processed_data,
                   out_json, out_txt>>
    /\ UNCHANGED scraper
    /\ UNCHANGED folder

(***************************************************************************)
(* Specifications                                                          *)
(***************************************************************************)
NextScrape ==
    \/ ScrapeOk
    \/ \E stage \in Stages : ScrapeFail(stage)

NextClean ==
    \/ ProcessStart
    \/ \E readable \in BOOLEAN : ProcessFileSkip(readable)
    \/ ParseFile
    \/ ProcessFileRaise
    \/ ProcessFileOk

Next ==
    \/ NextScrape
    \/ EditDump
    \/ NextClean

\* one document through the whole pipeline
Spec == Init /\ [][Next]_vars

\* a scrape batch: every list of 1..MaxUrls URLs, each URL serving its page
InitBatch ==
    /\ variant \in Variants
    /\ urls \in SeqsOf(URLs, 1, MaxUrls)
    /\ pages = [u \in URLs |-> BatchPage(u)]
    /\ ScraperStart
    /\ CleanerIdle

SpecBatch == InitBatch /\ [][NextScrape]_vars

ScraperAbsent ==
    /\ variant = "headless"
    /\ urls = <<>>
    /\ pages = EmptyMap
    /\ spc = "done"
    /\ idx = 0
    /\ results = <<>>
    /\ successful = 0
    /\ failed = 0
    /\ calls = <<>>
    /\ data_json = EmptyMap
    /\ edited = EmptyMap
    /\ attempts = {}

\* a clean batch over a folder of 0..MaxFiles files: dumps of pages and empty files
FileName(k) == <<"f">> \o str(k)

FileContents == {<<>>, TextDump(BatchPage(U_AB)), TextDump(BatchPage(U_CD))}

InitClean ==
    /\ ScraperAbsent
    /\ \E n \in 0..MaxFiles : data_txt \in [{FileName(k) : k \in 1..n} -> FileContents]
    /\ CleanerIdle

SpecClean == InitClean /\ [][NextClean]_vars

\* the normalizer on Records that did not come from a dump
HELLO_DOT == <<"H","e","l","l","o"," ","w","o","r","l","d",","," ","t","h","i","s"," ","w","o","r","k","s",".">>

HELLO_BANG == <<"H","e","l","l","o"," "," "," ","w","o","r","l","d",","," ","t","h","i","s"," ","w","o","r","k","s","!">>

HELLO_WRAPPED == <<"H","e","l","l","o"," "," ","w","o","r","l","d",",","\n"," ","t","h","i","s"," ","w","o","r","k","s",".">>

SHORT == <<"S","h","o","r","t">>

EXACTLY_TEN == <<"E","x","a","c","t","l","y"," ","t","e","n">>

WINDING == <<"a"," ","@"," "," ","b",";"," ","l","o","n","g"," ","&"," ","w","i","n","d","i","n","g">>

TEN_CHARS == <<"T","e","n"," ","c","h","a","r","s","!">>

SYMBOLS == <<"@"," ","&">>

NormTexts == {HELLO_DOT, HELLO_BANG, HELLO_WRAPPED, SHORT, EXACTLY_TEN, WINDING, TEN_CHARS, SYMBOLS}

NormHeads ==
    {[url |-> U_AB, meta_tags |-> EmptyMap, statistics |-> EmptyMap,
      title |-> <<"T","i","@","t","l","e">>, abstract |-> None, headings |-> <<>>, links |-> <<>>],
     [url |-> U_AB \o <<"/","@"," "," ","x">>,
      meta_tags |-> MapPut(EmptyMap, <<"k","@">>, <<"v"," "," ","&">>),
      statistics |-> [full_text_length |-> 7, total_headings |-> 2, total_paragraphs |-> 3,
                      total_links |-> 2, total_images |-> 0],
      title |-> <<"A","b">>, abstract |-> WINDING,
      headings |-> <<[level |-> <<"H","1">>, text |-> <<"@">>], [level |-> <<"h","2">>, text |-> SHORT]>>,
      links |-> <<[text |-> <<"G","o"," "," ","h","e","r","e">>, href |-> <<"/","x"," ","y","@">>],
                  [text |-> <<"&">>, href |-> <<"/","z">>]>>]}

\* the Record with headings and links takes every list of 0..MaxNormParas paragraphs,
\* the one without takes the lists of at most one paragraph
NormInputs ==
    UNION {{[url        |-> h.url,
             title      |-> h.title,
             abstract   |-> h.abstract,
             headings   |-> h.headings,
             paragraphs |-> ps,
             links      |-> h.links,
             meta_tags  |-> h.meta_tags,
             statistics |-> h.statistics] :
                ps \in SeqsOf(NormTexts, 0, IF h.headings = <<>> THEN 1 ELSE MaxNormParas)} :
           h \in NormHeads}

InitNorm ==
    /\ ScraperAbsent
    /\ data_txt = EmptyMap
    /\ cpc = "norm"
    /\ txt_files = <<>>
    /\ fidx = 0
    /\ processed_count = 0
    /\ failed_count = 0
    /\ parsed_data \in NormInputs
    /\ processed_data = EmptyMap
    /\ reprocessed = EmptyMap
    /\ out_json = EmptyMap
    /\ out_txt = EmptyMap
    /\ now = 0

NextNorm == Normalize \/ Renormalize

SpecNorm == InitNorm /\ [][NextNorm]_vars

(***************************************************************************)
(* Properties                                                              *)
(***************************************************************************)
\* the file the preprocessor is working on, and the Record it was dumped from
CurrentFile == txt_files[fidx + 1]

Extracted == data_json[CurrentFile]

\* the preprocessor has just parsed a dump that is as scrape_website wrote it
ParsedAsWritten ==
    /\ cpc = "parsed"
    /\ CurrentFile \in DOMAIN data_json
    /\ CurrentFile \notin DOMAIN edited

\* the first n elements of xs
FirstN(xs, n) == [i \in 1..(IF Len(xs) < n THEN Len(xs) ELSE n) |-> xs[i]]

\* every string of a Record that goes into the dump
SectionTexts(r) ==
    {r.url, r.title}
        \cup (IF Truthy(r.abstract) THEN {r.abstract} ELSE {})
        \cup {r.headings[i].text : i \in 1..Len(r.headings)}
        \cup Range(r.paragraphs)
        \cup {r.links[i].text : i \in 1..Len(r.links)}
        \cup {r.links[i].href : i \in 1..Len(r.links)}
        \cup {r.meta_tags[i].name : i \in 1..Len(r.meta_tags)}
        \cup {r.meta_tags[i].content : i \in 1..Len(r.meta_tags)}

NoTerminatorIn(r) ==
    \A s \in SectionTexts(r) :
        \A t \in {T_HEADINGS, T_PARAGRAPHS, T_LINKS, T_META, T_FULL} : ~Contains(s, t)

\* C1 (as claimed): for a Record r with no terminator label in any section, parsing
\* the dump written for r returns r's url, title and headings, and the first 20 of
\* r's paragraphs and links, in order.
C1_RoundTripContent ==
    (ParsedAsWritten /\ NoTerminatorIn(Extracted)) =>
        /\ parsed_data.url = Extracted.url
        /\ parsed_data.title = Extracted.title
        /\ parsed_data.headings = Extracted.headings
        /\ parsed_data.paragraphs = FirstN(Extracted.paragraphs, 20)
        /\ parsed_data.links = FirstN(Extracted.links, 20)

\* the five counts of a Record, as scrape_website computes them before truncation
CountsOf(r) ==
    [full_text_length |-> Len(r.full_text),
     total_headings   |-> Len(r.headings),
     total_paragraphs |-> Len(r.paragraphs),
     total_links      |-> Len(r.links),
     total_images     |-> Len(r.images)]

\* C2 (as claimed): whichever optional sections a Record has, parsing its dump
\* returns as statistics exactly the five untruncated counts written in the dump.
C2_RoundTripStatistics ==
    ParsedAsWritten => parsed_data.statistics = CountsOf(Extracted)

\* a cleaned Record without the time of its cleaning
WithoutTimestamp(r) == [r EXCEPT !.processed_stats.processing_timestamp = 0]

\* C3 (as claimed): the normalizer applied to its own output returns a Record equal
\* to that output in every field, processed_stats included.
C3_Idempotent ==
    cpc = "norm2" => reprocessed = processed_data

\* C3 (amended): the normalizer applied to its own output returns a Record equal to
\* that output in every field but processed_stats.processing_timestamp.
C3_IdempotentButTimestamp ==
    cpc = "norm2" => WithoutTimestamp(reprocessed) = WithoutTimestamp(processed_data)

\* the first pass changed the abstract, dropped a paragraph and a heading, and the
\* second pass ran at a later time
C3_Witness ==
    /\ cpc = "norm2"
    /\ processed_data.abstract # parsed_data.abstract
    /\ Len(processed_data.paragraphs) < Len(parsed_data.paragraphs)
    /\ Len(processed_data.paragraphs) > 0
    /\ Len(processed_data.headings) < Len(parsed_data.headings)
    /\ reprocessed.processed_stats.processing_timestamp
           # processed_data.processed_stats.processing_timestamp

\* the lines of a dump from the line `label` up to the next line of `stops` or the
\* first line that starts with FULL TEXT, the blank ones left out
EntriesOf(txt, label, stops) ==
    LET lines == split(txt, <<NL>>)
        at    == {k \in 1..Len(lines) : lines[k] = label}
        from  == Min(at) + 1
        ends  == {k \in from..Len(lines) : lines[k] \in stops \/ StartsWith(lines[k], T_FULL)}
        to    == IF ends = {} THEN Len(lines) ELSE Min(ends) - 1
    IN  IF at = {} THEN <<>>
        ELSE SelectSeq(SubSeq(lines, from, to), LAMBDA l : l # <<>>)

H_PARAGRAPHS == <<"P","A","R","A","G","R","A","P","H","S",":">>

H_LINKS == <<"L","I","N","K","S"," ","(","f","i","r","s","t"," ","2","0",")",":">>

H_META == <<"M","E","T","A"," ","T","A","G","S",":">>

\* a dump as scrape_website wrote it, and its Record, right after the batch
WrittenDumps ==
    IF ScraperEnded /\ cpc = "idle"
    THEN (DOMAIN data_txt \cap DOMAIN data_json) \ DOMAIN edited
    ELSE {}

\* C4: the dump of a Record with n paragraphs and m links holds exactly the first
\* min(n, 20) paragraphs and the first min(m, 20) links, numbered from 1 in document
\* order, and its statistics block reports TOTAL PARAGRAPHS n and TOTAL LINKS m.
C4_Truncation ==
    \A stem \in WrittenDumps :
        LET r   == data_json[stem]
            txt == data_txt[stem]
            n   == Len(r.paragraphs)
            m   == Len(r.links)
        IN  /\ EntriesOf(txt, H_PARAGRAPHS, {H_LINKS, H_META})
                 = [i \in 1..(IF n < 20 THEN n ELSE 20) |->
                       str(i) \o <<".", " ">> \o r.paragraphs[i]]
            /\ EntriesOf(txt, H_LINKS, {H_META})
                 = [i \in 1..(IF m < 20 THEN m ELSE 20) |->
                       str(i) \o <<".", " ">> \o r.links[i].text
                           \o <<" ", "-", ">", " ">> \o r.links[i].href]
            /\ L_TP \o str(n) \in Range(split(txt, <<NL>>))
            /\ L_TL \o str(m) \in Range(split(txt, <<NL>>))

\* a dump of a Record with more than 20 paragraphs and more than 20 links
C4_Witness ==
    \E stem \in WrittenDumps :
        /\ Len(data_json[stem].paragraphs) > 20
        /\ Len(data_json[stem].links) > 20
        /\ Len(EntriesOf(data_txt[stem], H_PARAGRAPHS, {H_LINKS, H_META})) = 20


\* C5 (as claimed): in both scrapers, whichever URLs fail, scrape_multiple_websites
\* attempts every URL of the list in list order, a failing URL yields a failure
\* outcome that is not a Record, and the batch returns exactly the Records of the
\* URLs that did not fail, in input order.
C5_ScrapeIsolation ==
    ScraperEnded =>
        LET ok == SelectSeq(calls, LAMBDA c : c.returned = "data")
        IN  /\ Len(calls) = Len(urls)
            /\ \A i \in 1..Len(calls) : calls[i].url = urls[i]
            /\ \A i \in 1..Len(calls) : calls[i].returned \in {"data", "None"}
            /\ spc = "done"
            /\ results = [i \in 1..Len(ok) |-> pages[ok[i].url]]

\* C6: process_all_files attempts every file of the listing once; after a file that
\* cannot be read, is empty or raises, the loop goes on with the next file; every
\* finished file is counted as processed or failed, and at the end of the loop
\* processed_count + failed_count is the number of files.
C6_CleanIsolation ==
    /\ cpc \in {"loop", "parsed", "done"} =>
           /\ processed_count + failed_count = fidx
           /\ fidx <= Len(txt_files)
           /\ Len(txt_files) = Cardinality(DOMAIN data_txt)
           /\ \A f \in DOMAIN data_txt : \E i \in 1..Len(txt_files) : txt_files[i] = f
    /\ cpc \in {"loop", "parsed"} => fidx < Len(txt_files)
    /\ cpc = "done" => fidx = Len(txt_files)
    /\ cpc = "done" => processed_count + failed_count = Len(txt_files)

\* the first file of two failed and the second one was processed and saved
C6_Witness ==
    /\ cpc = "done"
    /\ Len(txt_files) = 2
    /\ failed_count = 1
    /\ processed_count = 1
    /\ data_txt[txt_files[1]] = <<>>
    /\ txt_files[1] \notin DOMAIN out_json
    /\ txt_files[2] \in DOMAIN out_json

\* the edits that remove, reorder or malform a line of the statistics block
StatisticsEdits ==
    {"FULL TEXT LENGTH", "TOTAL HEADINGS", "TOTAL PARAGRAPHS", "TOTAL LINKS", "TOTAL IMAGES",
     "swap", "malform"}

EditOf(stem) == IF stem \in DOMAIN edited THEN edited[stem] ELSE "none"

\* the meta tags of a Record as the dict of their names
MetaOf(r) ==
    [n \in {r.meta_tags[i].name : i \in 1..Len(r.meta_tags)} |->
        (CHOOSE m \in Range(r.meta_tags) : m.name = n).content]

\* C8 (as claimed): whichever label or block is absent from a dump, the field of an
\* absent label or block is its empty default and the fields whose labels or blocks
\* are present are recovered as the dump holds them.
C8_MissingSections ==
    (cpc = "parsed" /\ CurrentFile \in DOMAIN data_json /\ NoTerminatorIn(Extracted)) =>
        LET r == Extracted
            e == EditOf(CurrentFile)
        IN  /\ parsed_data.url = IF e = "URL" THEN <<>> ELSE r.url
            /\ parsed_data.title = IF e = "Title" THEN <<>> ELSE r.title
            /\ parsed_data.abstract
                 = IF e = "ABSTRACT" \/ r.abstract = <<"None">> THEN <<>> ELSE r.abstract
            /\ parsed_data.headings
                 = IF e = "HEADINGS" THEN <<>>
                   ELSE [i \in 1..Len(r.headings) |->
                            [level |-> upper(r.headings[i].level), text |-> r.headings[i].text]]
            /\ parsed_data.paragraphs
                 = IF e = "PARAGRAPHS" THEN <<>> ELSE FirstN(r.paragraphs, 20)
            /\ parsed_data.links = IF e = "LINKS" THEN <<>> ELSE FirstN(r.links, 20)
            /\ parsed_data.meta_tags = IF e = "META TAGS" THEN EmptyMap ELSE MetaOf(r)
            /\ parsed_data.statistics
                 = IF e \in StatisticsEdits THEN EmptyMap ELSE CountsOf(r)

\* the cleaned texts of the paragraphs of a Record
CleanedOf(r) == [i \in 1..Len(r.paragraphs) |-> clean_text(r.paragraphs[i])]

\* the positions of the paragraphs that are long enough and have no equal before
FirstOccurrences(c) ==
    SelectSeq([i \in 1..Len(c) |-> i],
              LAMBDA i : Len(c[i]) > 10 /\ \A j \in 1..(i - 1) : c[j] # c[i])

\* C9: the paragraphs preprocess_content keeps are the cleaned texts longer than 10
\* characters at their first occurrence, in input order; every later paragraph with
\* the same cleaned text is dropped, so no two kept paragraphs are equal.
C9_Dedup ==
    cpc \in {"norm1", "norm2"} =>
        LET c     == CleanedOf(parsed_data)
            first == FirstOccurrences(c)
            out   == processed_data.paragraphs
        IN  /\ out = [k \in 1..Len(first) |-> c[first[k]]]
            /\ \A i \in 1..Len(out) : \A j \in 1..Len(out) : out[i] = out[j] => i = j

\* two paragraphs with one cleaned text and another one between them: two are kept
C9_Witness ==
    /\ cpc = "norm1"
    /\ Len(parsed_data.paragraphs) = 3
    /\ parsed_data.paragraphs[1] # parsed_data.paragraphs[3]
    /\ clean_text(parsed_data.paragraphs[1]) = clean_text(parsed_data.paragraphs[3])
    /\ Len(processed_data.paragraphs) = 2
    /\ processed_data.paragraphs[1] = clean_text(parsed_data.paragraphs[1])

\* the two paragraphs of the example were given to the normalizer
ExampleNormalized ==
    /\ cpc = "norm1"
    /\ parsed_data.paragraphs = <<HELLO_DOT, HELLO_BANG>>

\* C10 (as claimed): the paragraphs "Hello world, this works." and
\* "Hello   world, this works!" are cleaned to one string and one paragraph remains.
C10_DedupExample ==
    ExampleNormalized =>
        /\ clean_text(HELLO_DOT) = clean_text(HELLO_BANG)
        /\ Len(processed_data.paragraphs) = 1

\* C10 (amended): the paragraphs "Hello world, this works." and
\* "Hello   world, this works!" are cleaned to "Hello world, this works." and
\* "Hello world, this works!", which differ in their last character, and both remain.
C10_DedupExampleKeepsBoth ==
    ExampleNormalized =>
        /\ clean_text(HELLO_DOT) = HELLO_DOT
        /\ clean_text(HELLO_BANG) = SubSeq(HELLO_DOT, 1, Len(HELLO_DOT) - 1) \o <<"!">>
        /\ processed_data.paragraphs = <<clean_text(HELLO_DOT), clean_text(HELLO_BANG)>>
        /\ Len(processed_data.paragraphs) = 2

\* the example went through the normalizer and its output has two paragraphs
C10_Witness ==
    /\ ExampleNormalized
    /\ Len(processed_data.paragraphs) = 2
    /\ processed_data.processed_stats.clean_paragraphs_count = 2

\* C11: preprocess_content keeps the cleaned text of a paragraph exactly when it has
\* more than 10 characters: a cleaned text of 10 characters or less, the empty one
\* included, is not in the output and one of 11 characters is; "Short" is dropped
\* and "Exactly ten" is kept.
C11_ShortFilter ==
    cpc \in {"norm1", "norm2"} =>
        LET paras == parsed_data.paragraphs
            out   == processed_data.paragraphs
        IN  /\ \A i \in 1..Len(paras) :
                   (\E k \in 1..Len(out) : out[k] = clean_text(paras[i]))
                       <=> Len(clean_text(paras[i])) > 10
            /\ \A k \in 1..Len(out) : Len(out[k]) >= 11
            /\ \A k \in 1..Len(out) : out[k] # SHORT
            /\ (\E i \in 1..Len(paras) : paras[i] = EXACTLY_TEN)
                   => \E k \in 1..Len(out) : out[k] = EXACTLY_TEN

\* "Short", a text of 10 characters and "Exactly ten" were cleaned: the last remains
C11_Witness ==
    /\ cpc = "norm1"
    /\ parsed_data.paragraphs = <<SHORT, TEN_CHARS, EXACTLY_TEN>>
    /\ Len(clean_text(TEN_CHARS)) = 10
    /\ Len(clean_text(EXACTLY_TEN)) = 11
    /\ processed_data.paragraphs = <<EXACTLY_TEN>>

\* C12 (as claimed): parsing the dump written for a Record returns a meta_tags
\* mapping with the keys of the Record's meta_tags, whether they come from a name or
\* from a property attribute, and with the same content for each key.
C12_MetaRoundTrip ==
    ParsedAsWritten => parsed_data.meta_tags = MetaOf(Extracted)

\* C13 (as claimed): in scrape_website and in save_processed_data, when the write of
\* one of the two output files of a document fails, the write of the other file of
\* that document is tried as well.
C13_PersistIsolation ==
    \A a \in attempts :
        ~a.ok => \E b \in attempts : b.by = a.by /\ b.stem = a.stem /\ b.kind # a.kind

\* scrape_multiple_websites has returned and every URL of its list was scraped
BatchSucceeded ==
    /\ spc = "done"
    /\ Len(calls) = Len(urls)
    /\ \A i \in 1..Len(calls) : calls[i].returned = "data"

\* C14 (as claimed): after a batch of n distinct URLs that all succeeded, the data
\* folder holds n JSON files and n text dumps, and the pair of each URL holds the
\* Record of that URL: no output of the batch was overwritten by another.
C14_OnePairPerDocument ==
    (BatchSucceeded /\ \A i \in 1..Len(urls) : \A j \in 1..Len(urls) : urls[i] = urls[j] => i = j) =>
        /\ Cardinality(DOMAIN data_json) = Len(urls)
        /\ Cardinality(DOMAIN data_txt) = Len(urls)
        /\ \A i \in 1..Len(urls) :
               /\ Domain(urls[i]) \in DOMAIN data_json \cap DOMAIN data_txt
               /\ data_json[Domain(urls[i])] = pages[urls[i]]
               /\ data_txt[Domain(urls[i])] = TextDump(pages[urls[i]])

H_HEADINGS == <<"H","E","A","D","I","N","G","S",":">>

\* C15 (as claimed): the body of a block runs from its label to the next block
\* label or the end of the dump and a blank line does not end it, so every non-empty
\* line between the label and the next label gives one heading, paragraph, link or
\* meta tag.
C15_BlockTermination ==
    cpc = "parsed" =>
        LET txt == data_txt[CurrentFile]
        IN  /\ Len(parsed_data.headings)
                 = Len(EntriesOf(txt, H_HEADINGS, {H_PARAGRAPHS, H_LINKS, H_META}))
            /\ Len(parsed_data.paragraphs)
                 = Len(EntriesOf(txt, H_PARAGRAPHS, {H_LINKS, H_META}))
            /\ Len(parsed_data.links) = Len(EntriesOf(txt, H_LINKS, {H_META}))
            /\ Cardinality(DOMAIN parsed_data.meta_tags) = Len(EntriesOf(txt, H_META, {}))

\* the headings and the links of a Record whose cleaned text is not empty
KeptHeadings(r) == SelectSeq(r.headings, LAMBDA h : clean_text(h.text) # <<>>)

KeptLinks(r) == SelectSeq(r.links, LAMBDA l : clean_text(l.text) # <<>>)

\* url, meta_tags, statistics, the levels and the hrefs of the output are the input's
FrameOf(in, out) ==
    /\ out.url = in.url
    /\ out.meta_tags = in.meta_tags
    /\ out.statistics = in.statistics
    /\ Len(out.headings) = Len(KeptHeadings(in))
    /\ \A k \in 1..Len(out.headings) : out.headings[k].level = KeptHeadings(in)[k].level
    /\ Len(out.links) = Len(KeptLinks(in))
    /\ \A k \in 1..Len(out.links) : out.links[k].href = KeptLinks(in)[k].href

\* C16: preprocess_content returns the url, meta_tags and statistics of its input, the
\* level of every kept heading and the href of every kept link as they are in the
\* input, and a step of the normalizer leaves its input Record as it was.
C16_NormalizerFrame ==
    /\ [](cpc \in {"norm1", "norm2"} => FrameOf(parsed_data, processed_data))
    /\ [](cpc = "norm2" => FrameOf(processed_data, reprocessed))
    /\ [][cpc = "norm" => parsed_data' = parsed_data]_vars
    /\ [][cpc = "norm1" => processed_data' = processed_data]_vars

\* a Record with meta tags, statistics, a url and an href that cleaning would change,
\* a heading and a link that are dropped, went through the normalizer
C16_Witness ==
    /\ cpc = "norm1"
    /\ DOMAIN processed_data.meta_tags # {}
    /\ DOMAIN processed_data.statistics # {}
    /\ clean_text(parsed_data.url) # parsed_data.url
    /\ Len(processed_data.headings) < Len(parsed_data.headings)
    /\ Len(processed_data.links) = 1
    /\ Len(parsed_data.links) = 2
    /\ clean_text(processed_data.links[1].href) # processed_data.links[1].href
    /\ processed_data.links[1].text # parsed_data.links[1].text

\* the lines of the LINKS block of a dump that hold the separator
SeparatorLines(txt) ==
    SelectSeq(EntriesOf(txt, H_LINKS, {H_META}), LAMBDA l : Contains(l, ARROW))

\* C17 (as claimed): every line of the LINKS block that holds the separator `->`
\* splits into two parts and gives one link, its text the left part without the
\* leading "N." and its href the right part; the links keep the order of their lines.
C17_LinkLines ==
    cpc = "parsed" =>
        LET lines == SeparatorLines(data_txt[CurrentFile])
        IN  /\ Len(parsed_data.links) = Len(lines)
            /\ \A k \in 1..Len(lines) :
                   /\ Len(split(lines[k], ARROW)) = 2
                   /\ parsed_data.links[k].text = StripNumbering(strip(split(lines[k], ARROW)[1]))
                   /\ parsed_data.links[k].href = strip(split(lines[k], ARROW)[2])

\* f[1] + ... + f[n]
RECURSIVE SumTo(_, _)
SumTo(f, n) == IF n = 0 THEN 0 ELSE f[n] + SumTo(f, n - 1)

\* the characters of a list of texts, and their words: a cleaned text has one space
\* between two words and none at its ends
TotalLength(ps) == SumTo([i \in 1..Len(ps) |-> Len(ps[i])], Len(ps))

TotalWords(ps) ==
    SumTo([i \in 1..Len(ps) |-> 1 + Cardinality({j \in 1..Len(ps[i]) : ps[i][j] = " "})], Len(ps))

\* the processed_stats of a cleaned Record agree with its lists
StatsAgree(out) ==
    LET st == out.processed_stats
        n  == Len(out.paragraphs)
    IN  /\ st.clean_headings_count = Len(out.headings)
        /\ st.clean_paragraphs_count = n
        /\ st.clean_links_count = Len(out.links)
        /\ n = 0 => st.average_paragraph_length = [num |-> 0, den |-> 1]
        /\ n > 0 => st.average_paragraph_length = [num |-> TotalLength(out.paragraphs), den |-> n]
        /\ st.total_words = TotalWords(out.paragraphs)

\* C18: in a Record returned by preprocess_content the three counts are the lengths
\* of the returned headings, paragraphs and links, average_paragraph_length is the
\* sum of the paragraph lengths over their number, 0 when there is none, and
\* total_words is the number of words of the paragraphs joined by spaces.
C18_ProcessedStats ==
    /\ cpc \in {"norm1", "norm2"} => StatsAgree(processed_data)
    /\ cpc = "norm2" => StatsAgree(reprocessed)

\* two paragraphs of several words, a heading and a link remain and are counted
C18_Witness ==
    /\ cpc = "norm1"
    /\ Len(processed_data.paragraphs) = 2
    /\ Len(processed_data.headings) = 1
    /\ Len(processed_data.links) = 1
    /\ processed_data.processed_stats.total_words > 6
    /\ processed_data.processed_stats.average_paragraph_length.den = 2
    /\ processed_data.processed_stats.average_paragraph_length.num > 22

\* the rest of the first line of a dump that begins with label, "" when there is none
LineValue(txt, label) ==
    LET lines == split(txt, <<NL>>)
        at    == {k \in 1..Len(lines) : StartsWith(lines[k], label)}
    IN  IF at = {} THEN <<>> ELSE strip(From(lines[Min(at)], Len(label) + 1))

\* C19 (as claimed): url and title are the rest of the line that begins with
\* "URL: " and "Title: "; the label text in the middle of another line is never
\* taken as the value, also when the label line is absent.
C19_SingleLineFields ==
    cpc = "parsed" =>
        /\ parsed_data.url = LineValue(data_txt[CurrentFile], L_URL)
        /\ parsed_data.title = LineValue(data_txt[CurrentFile], L_TITLE)

====
